---- MODULE Spec2Model ----
(***************************************************************************)
(* Model of the devfolio snippet manager: the useDebounce and              *)
(* usePagination hooks (src/hooks/index.ts), the filter composition and    *)
(* the fetch / mutation handlers of the snippets page                      *)
(* (src/app/(dashboard)/snippets/page.tsx).                                *)
(*                                                                         *)
(* Each component has its own variables, initial predicate and next-state  *)
(* relation; a specification runs one component and leaves the others      *)
(* idle.                                                                   *)
(***************************************************************************)
EXTENDS Integers, Sequences, FiniteSets, TLC

VARIABLES
    \* useDebounce
    dbValue,        \* the hook's input `value` at the last render
    dbDebounced,    \* the state debouncedValue
    dbTimers,       \* pending setTimeout timers: [id, val, remaining]
    dbHandler,      \* the timer id held by the current effect's cleanup
    dbNextTimer,    \* next timer id (setTimeout returns fresh ids)
    dbMounted,      \* the owning component is mounted
    dbFired,        \* the timers whose callback has run
    \* usePagination
    pgItems,        \* the `items` argument
    pgPerPage,      \* the `itemsPerPage` argument
    pgCurrentPage,  \* the state currentPage
    pgClosure,      \* what the last render returned and what its callbacks captured
    pgLastCall,     \* the last operation called, its argument and currentPage before the call
    \* filter composition (filteredSnippets)
    flSnippets,     \* the source list
    flSearch,       \* debouncedSearch
    flLanguage,     \* selectedLanguage
    flTags,         \* selectedTags
    flResult,       \* the filtered list
    flAgain,        \* the filter applied to the filtered list, same criteria
    flPc,           \* "input" before the memo is computed, "done" after, "again" after the second pass
    \* snippets page and the API behind it
    srvItems,       \* ids of the snippets the API holds
    srvNextId,      \* id the API gives to the next created snippet
    inflight,       \* API calls awaiting their continuation
    nextReq,        \* issue number of the next API call
    snippets,       \* the state snippets (ids, in list order)
    isLoading,      \* the state isLoading
    isDialogOpen,   \* the page's create dialog (useToggle)
    isEditDialogOpen, \* ids of the cards whose edit dialog is open (useToggle per card)
    toasts,         \* notifications emitted so far
    mounted,        \* the page is mounted
    unhandled,      \* promise rejections no handler caught
    lastOkFetch,    \* issue number of the latest-issued list call applied so far
    expected,       \* response of that call, less the ids deleted since
    \* useClipboard and the page's handleCopy
    cbIsCopied,     \* the state isCopied
    cbWrites,       \* navigator.clipboard.writeText calls not settled yet
    cbTimers,       \* pending reset timers: [id, remaining]
    cbNextCopy,     \* number of the next copyToClipboard call
    cbMounted,      \* the owning component is mounted
    cbToasts,       \* copy numbers for which the success notification was shown
    cbWritten,      \* copy numbers whose clipboard write succeeded
    cbFailed,       \* copy numbers whose clipboard write was rejected
    cbLateResets,   \* reset timers whose callback ran after the unmount
    \* apiClient, the auth store and the middleware
    lsToken,        \* localStorage 'token'
    cookieToken,    \* the 'token' cookie
    stToken,        \* the auth store's token
    stUser,         \* the auth store's user
    stIsAuthenticated, \* the auth store's isAuthenticated
    location,       \* path of the page the browser shows
    href,           \* target of a navigation that has started and not loaded yet
    auInflight,     \* requests sent through apiClient, awaiting their response
    auNextCall,     \* number of the next request
    auSettled,      \* requests whose response was handled, with what was done
    auUnhandled,    \* requests whose rejection no handler caught
    \* useToggle
    tgInitial,      \* the hook's initialValue
    tgValue,        \* the state value, as of the last render
    tgQueue,        \* state updates enqueued since the last render, in call order
    tgLog,          \* every call made since the mount, in call order
    \* the route middleware
    mwPath,         \* request.nextUrl.pathname of the request at hand
    mwCookie,       \* value of the request's 'token' cookie
    mwResponse,     \* what the middleware answered, "pending" before it ran
    mwHops,         \* redirects followed since the browser's own request
    mwVisits,       \* requests the browser has made of its own
    \* the tag filter's options and selection (snippets page)
    tsSnippets,     \* the state snippets, with their tags
    tsSelected,     \* the state selectedTags
    tsLast,         \* what changed last: "mount", "click", "fetch" or "delete"
    \* useAsync
    asStatus,       \* the state status
    asData,         \* the state data: the number of the call whose response it is
    asError,        \* the state error: the number of the call whose rejection it is
    asCalls,        \* asyncFunction() promises not settled yet
    asNextCall,     \* number of the next execute() call
    asOutcomes      \* how each settled call ended

dbVars == <<dbValue, dbDebounced, dbTimers, dbHandler, dbNextTimer, dbMounted, dbFired>>
pgVars == <<pgItems, pgPerPage, pgCurrentPage, pgClosure, pgLastCall>>
flVars == <<flSnippets, flSearch, flLanguage, flTags, flResult, flAgain, flPc>>
apiVars == <<srvItems, srvNextId, inflight, nextReq>>
pageVars == <<snippets, isLoading, isDialogOpen, isEditDialogOpen, toasts, mounted, unhandled>>
ghostVars == <<lastOkFetch, expected>>
cbVars == <<cbIsCopied, cbWrites, cbTimers, cbNextCopy, cbMounted, cbToasts, cbWritten,
            cbFailed, cbLateResets>>
auVars == <<lsToken, cookieToken, stToken, stUser, stIsAuthenticated, location, href,
            auInflight, auNextCall, auSettled, auUnhandled>>
tgVars == <<tgInitial, tgValue, tgQueue, tgLog>>
mwVars == <<mwPath, mwCookie, mwResponse, mwHops, mwVisits>>
tsVars == <<tsSnippets, tsSelected, tsLast>>
asVars == <<asStatus, asData, asError, asCalls, asNextCall, asOutcomes>>
vars == <<dbVars, pgVars, flVars, apiVars, pageVars, ghostVars, cbVars, auVars, tgVars, mwVars, tsVars, asVars>>

\* what each component leaves alone
notDb == <<pgVars, flVars, apiVars, pageVars, ghostVars, cbVars, auVars, tgVars, mwVars, tsVars, asVars>>
notPg == <<dbVars, flVars, apiVars, pageVars, ghostVars, cbVars, auVars, tgVars, mwVars, tsVars, asVars>>
notFl == <<dbVars, pgVars, apiVars, pageVars, ghostVars, cbVars, auVars, tgVars, mwVars, tsVars, asVars>>
notPage == <<dbVars, pgVars, flVars, cbVars, auVars, tgVars, mwVars, tsVars, asVars>>
notCb == <<dbVars, pgVars, flVars, apiVars, pageVars, ghostVars, auVars, tgVars, mwVars, tsVars, asVars>>
notTg == <<dbVars, pgVars, flVars, apiVars, pageVars, ghostVars, cbVars, auVars, mwVars, tsVars, asVars>>
notMw == <<dbVars, pgVars, flVars, apiVars, pageVars, ghostVars, cbVars, auVars, tgVars, tsVars, asVars>>
notTs == <<dbVars, pgVars, flVars, apiVars, pageVars, ghostVars, cbVars, auVars, tgVars, mwVars, asVars>>
notAs == <<dbVars, pgVars, flVars, apiVars, pageVars, ghostVars, cbVars, auVars, tgVars, mwVars,
           tsVars>>
notAu == <<dbVars, pgVars, flVars, apiVars, pageVars, ghostVars, cbVars, tgVars, mwVars, tsVars, asVars>>

----------------------------------------------------------------------------
(* Bounds of the model *)

\* ticks of model time that make up `delay`
DelayTicks == 2
\* number of timers one hook instance may start (input changes + 1)
MaxTimers == 4
\* ticks of model time that make up the clipboard hook's `timeout`
TimeoutTicks == 2
\* number of copyToClipboard calls
MaxCopies == 3
\* number of requests sent through apiClient
MaxCalls == 2
\* number of calls made on one useToggle instance
MaxToggleCalls == 4
\* number of requests the browser makes of its own (redirects not counted)
MaxVisits == 2
\* number of execute() calls on one useAsync instance
MaxExecutes == 4
\* longest list handed to usePagination
MaxLen == 10
\* page sizes 1..MaxPerPage are tried next to the snippets page's own
MaxPerPage == 2
\* longest source list handed to the filter
MaxListLen == 3
\* largest snippet id the API hands out
MaxId == 2
\* number of API calls issued in one run
MaxRequests == 4

(* Program constants *)

\* usePagination(filteredSnippets, 9)
ItemsPerPage == 9

----------------------------------------------------------------------------
(* Arithmetic helpers: Math.max, Math.min, Math.ceil of a quotient *)

Max(a, b) == IF a >= b THEN a ELSE b

Min(a, b) == IF a <= b THEN a ELSE b

CeilDiv(a, b) == (a + b - 1) \div b

----------------------------------------------------------------------------
(* useDebounce *)

DbValues == {"", "f", "fo"}

NoHandler == 0

\* setTimeout(() => setDebouncedValue(value), delay): the callback closes over
\* the value of the render that ran the effect
SetTimeout(id, value) == [id |-> id, val |-> value, remaining |-> DelayTicks]

ClearTimeoutDropped(timers, handler) == timers

\* clearTimeout(handler)
ClearTimeout(timers, handler) == {t \in timers : t.id # handler}

TimerCallbackStale(t) == dbDebounced

\* the timer's callback: setDebouncedValue(value)
TimerCallback(t) == t.val

DbInit ==
    /\ dbValue \in DbValues
    /\ dbDebounced = dbValue
    /\ dbTimers = {SetTimeout(1, dbValue)}
    /\ dbHandler = 1
    /\ dbNextTimer = 2
    /\ dbMounted = TRUE
    /\ dbFired = {}

DbIdle ==
    /\ dbValue = ""
    /\ dbDebounced = ""
    /\ dbTimers = {}
    /\ dbHandler = NoHandler
    /\ dbNextTimer = 1
    /\ dbMounted = FALSE
    /\ dbFired = {}

\* a render with a new `value`: the effect's cleanup runs, then the effect
DbSetValue(v) ==
    /\ dbMounted
    /\ v # dbValue
    /\ dbNextTimer <= MaxTimers
    /\ dbValue' = v
    /\ dbTimers' = ClearTimeout(dbTimers, dbHandler) \cup {SetTimeout(dbNextTimer, v)}
    /\ dbHandler' = dbNextTimer
    /\ dbNextTimer' = dbNextTimer + 1
    /\ UNCHANGED <<dbDebounced, dbMounted, dbFired>>
    /\ UNCHANGED notDb

\* one tick of time passes
DbTick ==
    /\ \E t \in dbTimers : t.remaining > 0
    /\ dbTimers' = {[t EXCEPT !.remaining = Max(0, t.remaining - 1)] : t \in dbTimers}
    /\ UNCHANGED <<dbValue, dbDebounced, dbHandler, dbNextTimer, dbMounted, dbFired>>
    /\ UNCHANGED notDb

\* a due timer fires
DbFire(t) ==
    /\ t \in dbTimers
    /\ t.remaining = 0
    /\ dbDebounced' = TimerCallback(t)
    /\ dbTimers' = dbTimers \ {t}
    /\ dbFired' = dbFired \cup {t.id}
    /\ UNCHANGED <<dbValue, dbHandler, dbNextTimer, dbMounted>>
    /\ UNCHANGED notDb

\* the owning component unmounts: the effect's cleanup runs
DbUnmount ==
    /\ dbMounted
    /\ dbMounted' = FALSE
    /\ dbTimers' = ClearTimeout(dbTimers, dbHandler)
    /\ dbHandler' = NoHandler
    /\ UNCHANGED <<dbValue, dbDebounced, dbNextTimer, dbFired>>
    /\ UNCHANGED notDb

DbNext ==
    \/ \E v \in DbValues : DbSetValue(v)
    \/ DbTick
    \/ \E t \in dbTimers : DbFire(t)
    \/ DbUnmount

----------------------------------------------------------------------------
(* usePagination *)

TotalPagesFloor(items, perPage) == Len(items) \div perPage

\* const totalPages = Math.ceil(items.length / itemsPerPage)
TotalPages(items, perPage) == CeilDiv(Len(items), perPage)

\* items.slice(startIndex, endIndex)
Slice(items, startIndex, endIndex) ==
    SubSeq(items, Min(startIndex, Len(items)) + 1, Min(endIndex, Len(items)))

PaginatedItemsInclusive(items, currentPage, perPage) ==
    Slice(items, (currentPage - 1) * perPage, (currentPage - 1) * perPage + perPage + 1)

PaginatedItems(items, currentPage, perPage) ==
    Slice(items, (currentPage - 1) * perPage, (currentPage - 1) * perPage + perPage)

ClampNoLower(page, totalPages) == Min(page, totalPages)

\* Math.max(1, Math.min(page, totalPages))
Clamp(page, totalPages) == Max(1, Min(page, totalPages))

HasNextPage == pgCurrentPage < TotalPages(pgItems, pgPerPage)

HasPrevPage == pgCurrentPage > 1

ListOf(n) == [i \in 1..n |-> i]

PerPageChoices == (1..MaxPerPage) \cup {ItemsPerPage}

GoToArgs == -1..(MaxLen + 1)

\* the object returned by one render of the hook; goToPage, nextPage and
\* prevPage of that render read currentPage and totalPages from it
RenderClosure(currentPage, items, perPage) ==
    [currentPage    |-> currentPage,
     totalPages     |-> TotalPages(items, perPage),
     paginatedItems |-> PaginatedItems(items, currentPage, perPage),
     hasNextPage    |-> currentPage < TotalPages(items, perPage),
     hasPrevPage    |-> currentPage > 1]

PgInit ==
    /\ pgItems \in {ListOf(n) : n \in 0..MaxLen}
    /\ pgPerPage \in PerPageChoices
    /\ pgCurrentPage = 1
    /\ pgClosure = RenderClosure(1, pgItems, pgPerPage)
    /\ pgLastCall = [op |-> "mount", arg |-> 0, from |-> 1]

PgIdle ==
    /\ pgItems = <<>>
    /\ pgPerPage = ItemsPerPage
    /\ pgCurrentPage = 1
    /\ pgClosure = RenderClosure(1, <<>>, ItemsPerPage)
    /\ pgLastCall = [op |-> "mount", arg |-> 0, from |-> 1]

\* goToPage(page), as the callback of the last render
GoToPage(page) ==
    /\ pgCurrentPage' = Clamp(page, pgClosure.totalPages)
    /\ pgLastCall' = [op |-> "goToPage", arg |-> page, from |-> pgCurrentPage]
    /\ UNCHANGED <<pgItems, pgPerPage, pgClosure>>
    /\ UNCHANGED notPg

\* nextPage(): goToPage(currentPage + 1)
NextPage ==
    /\ pgCurrentPage' = Clamp(pgClosure.currentPage + 1, pgClosure.totalPages)
    /\ pgLastCall' = [op |-> "nextPage", arg |-> 0, from |-> pgCurrentPage]
    /\ UNCHANGED <<pgItems, pgPerPage, pgClosure>>
    /\ UNCHANGED notPg

\* prevPage(): goToPage(currentPage - 1)
PrevPage ==
    /\ pgCurrentPage' = Clamp(pgClosure.currentPage - 1, pgClosure.totalPages)
    /\ pgLastCall' = [op |-> "prevPage", arg |-> 0, from |-> pgCurrentPage]
    /\ UNCHANGED <<pgItems, pgPerPage, pgClosure>>
    /\ UNCHANGED notPg

\* the re-render that follows a state update: the callbacks are re-created
PgRender ==
    /\ pgClosure # RenderClosure(pgCurrentPage, pgItems, pgPerPage)
    /\ pgClosure' = RenderClosure(pgCurrentPage, pgItems, pgPerPage)
    /\ UNCHANGED <<pgItems, pgPerPage, pgCurrentPage, pgLastCall>>
    /\ UNCHANGED notPg

\* the caller renders with another list (new filter result, delete, re-fetch)
PgSetItems(items) ==
    /\ items # pgItems
    /\ pgItems' = items
    /\ pgClosure' = RenderClosure(pgCurrentPage, items, pgPerPage)
    /\ pgLastCall' = [op |-> "setItems", arg |-> Len(items), from |-> pgCurrentPage]
    /\ UNCHANGED <<pgPerPage, pgCurrentPage>>
    /\ UNCHANGED notPg

PgNavigate ==
    \/ \E page \in GoToArgs : GoToPage(page)
    \/ NextPage
    \/ PrevPage
    \/ PgRender

PgNext == PgNavigate

PgResizeNext ==
    \/ PgNavigate
    \/ \E n \in 0..MaxLen : PgSetItems(ListOf(n))

----------------------------------------------------------------------------
(* Filter composition: the filteredSnippets memo of the snippets page.     *)
(* A string is a sequence of one-character strings.                        *)

\* String.prototype.toLowerCase, on the alphabet of the model
LowerChar(c) ==
    CASE c = "F" -> "f"
      [] c = "O" -> "o"
      [] c = "B" -> "b"
      [] c = "H" -> "h"
      [] OTHER -> c

ToLowerCase(str) == [i \in 1..Len(str) |-> LowerChar(str[i])]

\* String.prototype.includes
Includes(str, sub) ==
    \E i \in 0..(Len(str) - Len(sub)) : SubSeq(str, i + 1, i + Len(sub)) = sub

\* Array.prototype.includes
ArrayIncludes(arr, x) == \E i \in 1..Len(arr) : arr[i] = x

\* description?: string
NoDescription == [present |-> FALSE, text |-> <<>>]

Description(text) == [present |-> TRUE, text |-> text]

\* the snippets the source lists are drawn from
SnippetPool ==
    { [id |-> 1, title |-> <<"F", "o", "o", "b", "a", "r">>, description |-> Description(<<>>),
       code |-> <<"x">>, language |-> "javascript", tags |-> <<>>],
      [id |-> 2, title |-> <<"B", "a", "r">>,
       description |-> Description(<<"h", "a", "s", " ", "f", "o", "o">>),
       code |-> <<"y">>, language |-> "python", tags |-> <<"vue">>],
      [id |-> 3, title |-> <<"H", "o", "o", "k">>, description |-> NoDescription,
       code |-> <<"F", "O", "O", "(", ")">>, language |-> "javascript",
       tags |-> <<"hooks", "testing">>],
      [id |-> 4, title |-> <<"z">>, description |-> NoDescription,
       code |-> <<"z">>, language |-> "typescript", tags |-> <<"react">>] }

SearchTexts ==
    { <<>>, <<"f", "o", "o">>, <<"F", "O", "O">>, <<"b", "a", "r">>, <<"q">> }

Languages == {"all", "javascript", "python"}

TagSelections == { <<>>, <<"react", "hooks">>, <<"vue">>, <<"testing">> }

SourceLists == UNION {[1..n -> SnippetPool] : n \in 0..MaxListLen}

MatchesSearchCaseSensitive(snippet, search) ==
    \/ Includes(snippet.title, search)
    \/ /\ snippet.description.present
       /\ Includes(snippet.description.text, search)
    \/ Includes(snippet.code, search)

\* the predicate of the search filter
MatchesSearch(snippet, search) ==
    \/ Includes(ToLowerCase(snippet.title), ToLowerCase(search))
    \/ /\ snippet.description.present
       /\ Includes(ToLowerCase(snippet.description.text), ToLowerCase(search))
    \/ Includes(ToLowerCase(snippet.code), ToLowerCase(search))

SearchStageRanked(list, search) ==
    IF search # <<>>
    THEN SelectSeq(list, LAMBDA sn : Includes(ToLowerCase(sn.title), ToLowerCase(search)))
         \o SelectSeq(list, LAMBDA sn : /\ MatchesSearch(sn, search)
                                       /\ ~Includes(ToLowerCase(sn.title), ToLowerCase(search)))
    ELSE list

\* if (debouncedSearch) filtered = filtered.filter(...)
SearchStage(list, search) ==
    IF search # <<>>
    THEN SelectSeq(list, LAMBDA sn : MatchesSearch(sn, search))
    ELSE list

LanguageStageSkipped(list, language) == list

\* if (selectedLanguage !== 'all') filtered = filtered.filter(...)
LanguageStage(list, language) ==
    IF language # "all"
    THEN SelectSeq(list, LAMBDA sn : sn.language = language)
    ELSE list

TagStageEvery(list, tags) ==
    IF Len(tags) > 0
    THEN SelectSeq(list, LAMBDA sn : \A i \in 1..Len(tags) : ArrayIncludes(sn.tags, tags[i]))
    ELSE list

\* if (selectedTags.length > 0) filtered = filtered.filter(...)
TagStage(list, tags) ==
    IF Len(tags) > 0
    THEN SelectSeq(list, LAMBDA sn : \E i \in 1..Len(tags) : ArrayIncludes(sn.tags, tags[i]))
    ELSE list

Reverse(list) == [i \in 1..Len(list) |-> list[Len(list) + 1 - i]]

FilteredSnippetsNewestFirst(list, search, language, tags) ==
    Reverse(TagStage(LanguageStage(SearchStage(list, search), language), tags))

FilteredSnippets(list, search, language, tags) ==
    TagStage(LanguageStage(SearchStage(list, search), language), tags)

FlInit ==
    /\ flSnippets \in SourceLists
    /\ flSearch \in SearchTexts
    /\ flLanguage \in Languages
    /\ flTags \in TagSelections
    /\ flResult = <<>>
    /\ flAgain = <<>>
    /\ flPc = "input"

FlIdle ==
    /\ flSnippets = <<>>
    /\ flSearch = <<>>
    /\ flLanguage = "all"
    /\ flTags = <<>>
    /\ flResult = <<>>
    /\ flAgain = <<>>
    /\ flPc = "idle"

\* the memo is computed
FlCompute ==
    /\ flPc = "input"
    /\ flResult' = FilteredSnippets(flSnippets, flSearch, flLanguage, flTags)
    /\ flPc' = "done"
    /\ UNCHANGED <<flSnippets, flSearch, flLanguage, flTags, flAgain>>
    /\ UNCHANGED notFl

\* the memo is computed over its own result (the filtered list as the source list)
FlRecompute ==
    /\ flPc = "done"
    /\ flAgain' = FilteredSnippets(flResult, flSearch, flLanguage, flTags)
    /\ flPc' = "again"
    /\ UNCHANGED <<flSnippets, flSearch, flLanguage, flTags, flResult>>
    /\ UNCHANGED notFl

FlNext == FlCompute \/ FlRecompute

----------------------------------------------------------------------------
(* Snippets page: fetchSnippets, handleDelete, SnippetForm.handleSubmit and *)
(* the API they call. An API call is issued ("sent"), answered by the API   *)
(* ("replied") and then its continuation runs on the page.                  *)

RECURSIVE SortedSeq(_)
\* the list the API returns: its snippets in id order
SortedSeq(S) ==
    IF S = {} THEN <<>>
    ELSE LET m == CHOOSE x \in S : \A y \in S : x <= y
         IN <<m>> \o SortedSeq(S \ {m})

Range(seq) == {seq[i] : i \in 1..Len(seq)}

Mutations == {"create", "update", "delete"}

Request(id, kind, target) ==
    [id |-> id, kind |-> kind, target |-> target, phase |-> "sent", ok |-> FALSE, data |-> <<>>]

\* the cards on screen: none while the loading skeleton is shown
CardsShown(list, loading) == IF loading THEN {} ELSE Range(list)

AnyDialogOpen == isDialogOpen \/ isEditDialogOpen # {}

\* create and update re-fetch on success: an issue number is kept for each
CanIssue(reserve) ==
    nextReq + reserve
      + Cardinality({r \in inflight : r.kind \in {"create", "update"}}) <= MaxRequests

ToastError(msg) == [type |-> "error", msg |-> msg]

ToastSuccess(msg) == [type |-> "success", msg |-> msg]

FetchSettledNoCatch(r) ==
    [snippets |-> IF r.ok THEN r.data ELSE snippets,
     toasts |-> <<>>,
     isLoading |-> FALSE,
     rejected |-> ~r.ok]

\* fetchSnippets after `await snippetsApi.getAll()`: try / catch / finally
FetchSettled(r) ==
    [snippets |-> IF r.ok THEN r.data ELSE snippets,
     toasts |-> IF r.ok THEN <<>> ELSE <<ToastError("Failed to load snippets")>>,
     isLoading |-> FALSE,
     rejected |-> FALSE]

DeleteSettledOptimistic(r) ==
    [snippets |-> SelectSeq(snippets, LAMBDA id : id # r.target),
     toasts |-> IF r.ok THEN <<ToastSuccess("Snippet deleted")>>
                ELSE <<ToastError("Failed to delete snippet")>>,
     rejected |-> FALSE]

\* handleDelete after `await snippetsApi.delete(id)`: try / catch
DeleteSettled(r) ==
    [snippets |-> IF r.ok THEN SelectSeq(snippets, LAMBDA id : id # r.target) ELSE snippets,
     toasts |-> IF r.ok THEN <<ToastSuccess("Snippet deleted")>>
                ELSE <<ToastError("Failed to delete snippet")>>,
     rejected |-> FALSE]

SubmitSettledNoRefresh(r) ==
    [toasts |-> IF ~r.ok THEN <<ToastError("Failed to save snippet")>>
                ELSE IF r.kind = "update" THEN <<ToastSuccess("Snippet updated")>>
                ELSE <<ToastSuccess("Snippet created")>>,
     onSuccess |-> FALSE,
     rejected |-> FALSE]

SubmitSettledAlwaysRefresh(r) ==
    [toasts |-> IF ~r.ok THEN <<ToastError("Failed to save snippet")>>
                ELSE IF r.kind = "update" THEN <<ToastSuccess("Snippet updated")>>
                ELSE <<ToastSuccess("Snippet created")>>,
     onSuccess |-> TRUE,
     rejected |-> FALSE]

\* SnippetForm.handleSubmit after `await snippetsApi.update / create`: try / catch / finally
SubmitSettled(r) ==
    [toasts |-> IF ~r.ok THEN <<ToastError("Failed to save snippet")>>
                ELSE IF r.kind = "update" THEN <<ToastSuccess("Snippet updated")>>
                ELSE <<ToastSuccess("Snippet created")>>,
     onSuccess |-> r.ok,
     rejected |-> FALSE]

\* React drops a state update of an unmounted component
SetState(old, new) == IF mounted THEN new ELSE old

PageInit ==
    /\ \E k \in 0..(MaxId - 1) : srvItems = 1..k /\ srvNextId = k + 1
    /\ inflight = {Request(1, "list", 0)}
    /\ nextReq = 2
    /\ snippets = <<>>
    /\ isLoading = TRUE
    /\ isDialogOpen = FALSE
    /\ isEditDialogOpen = {}
    /\ toasts = <<>>
    /\ mounted = TRUE
    /\ unhandled = 0
    /\ lastOkFetch = 0
    /\ expected = <<>>

PageIdle ==
    /\ srvItems = {}
    /\ srvNextId = 1
    /\ inflight = {}
    /\ nextReq = 1
    /\ snippets = <<>>
    /\ isLoading = TRUE
    /\ isDialogOpen = FALSE
    /\ isEditDialogOpen = {}
    /\ toasts = <<>>
    /\ mounted = FALSE
    /\ unhandled = 0
    /\ lastOkFetch = 0
    /\ expected = <<>>

\* "New Snippet" / "Create your first snippet": openDialog
OpenDialog ==
    /\ mounted
    /\ ~AnyDialogOpen
    /\ isDialogOpen' = TRUE
    /\ UNCHANGED <<snippets, isLoading, isEditDialogOpen, toasts, mounted, unhandled>>
    /\ UNCHANGED <<apiVars, ghostVars, notPage>>

\* onOpenChange(false) of the create dialog: closeDialog
CloseDialog ==
    /\ mounted
    /\ isDialogOpen
    /\ isDialogOpen' = FALSE
    /\ UNCHANGED <<snippets, isLoading, isEditDialogOpen, toasts, mounted, unhandled>>
    /\ UNCHANGED <<apiVars, ghostVars, notPage>>

\* "Edit" on a card: openEdit
OpenEdit(id) ==
    /\ mounted
    /\ ~AnyDialogOpen
    /\ id \in CardsShown(snippets, isLoading)
    /\ isEditDialogOpen' = {id}
    /\ UNCHANGED <<snippets, isLoading, isDialogOpen, toasts, mounted, unhandled>>
    /\ UNCHANGED <<apiVars, ghostVars, notPage>>

\* onOpenChange(false) of a card's edit dialog: closeEdit
CloseEdit(id) ==
    /\ mounted
    /\ id \in isEditDialogOpen
    /\ isEditDialogOpen' = isEditDialogOpen \ {id}
    /\ UNCHANGED <<snippets, isLoading, isDialogOpen, toasts, mounted, unhandled>>
    /\ UNCHANGED <<apiVars, ghostVars, notPage>>

\* handleSubmit of the create form, up to `await snippetsApi.create(data)`
SubmitCreate ==
    /\ mounted
    /\ isDialogOpen
    /\ CanIssue(1)
    /\ inflight' = inflight \cup {Request(nextReq, "create", 0)}
    /\ nextReq' = nextReq + 1
    /\ UNCHANGED <<srvItems, srvNextId, pageVars, ghostVars, notPage>>

\* handleSubmit of a card's edit form, up to `await snippetsApi.update(snippet.id, data)`
SubmitUpdate(id) ==
    /\ mounted
    /\ id \in isEditDialogOpen
    /\ CanIssue(1)
    /\ inflight' = inflight \cup {Request(nextReq, "update", id)}
    /\ nextReq' = nextReq + 1
    /\ UNCHANGED <<srvItems, srvNextId, pageVars, ghostVars, notPage>>

\* handleDelete with the confirm() accepted, up to `await snippetsApi.delete(id)`
ClickDelete(id) ==
    /\ mounted
    /\ ~AnyDialogOpen
    /\ id \in CardsShown(snippets, isLoading)
    /\ CanIssue(0)
    /\ inflight' = inflight \cup {Request(nextReq, "delete", id)}
    /\ nextReq' = nextReq + 1
    /\ UNCHANGED <<srvItems, srvNextId, pageVars, ghostVars, notPage>>

\* the API answers a call with a 2xx
ApiAccept(r) ==
    /\ r \in inflight
    /\ r.phase = "sent"
    /\ r.kind = "create" => srvNextId <= MaxId
    /\ r.kind \in {"update", "delete"} => r.target \in srvItems
    /\ srvItems' = CASE r.kind = "create" -> srvItems \cup {srvNextId}
                     [] r.kind = "delete" -> srvItems \ {r.target}
                     [] OTHER -> srvItems
    /\ srvNextId' = IF r.kind = "create" THEN srvNextId + 1 ELSE srvNextId
    /\ inflight' = (inflight \ {r}) \cup
                   {[r EXCEPT !.phase = "replied", !.ok = TRUE,
                              !.data = IF r.kind = "list" THEN SortedSeq(srvItems) ELSE <<>>]}
    /\ UNCHANGED <<nextReq, pageVars, ghostVars, notPage>>

\* the call fails: a 4xx / 5xx answer, a timeout, no network
ApiReject(r) ==
    /\ r \in inflight
    /\ r.phase = "sent"
    /\ inflight' = (inflight \ {r}) \cup {[r EXCEPT !.phase = "replied", !.ok = FALSE]}
    /\ UNCHANGED <<srvItems, srvNextId, nextReq, pageVars, ghostVars, notPage>>

\* the continuation of fetchSnippets runs
FetchContinue(r) ==
    /\ r \in inflight
    /\ r.phase = "replied"
    /\ r.kind = "list"
    /\ LET out == FetchSettled(r) IN
        /\ snippets' = SetState(snippets, out.snippets)
        /\ isLoading' = SetState(isLoading, out.isLoading)
        /\ isEditDialogOpen' =
             isEditDialogOpen \cap CardsShown(SetState(snippets, out.snippets),
                                              SetState(isLoading, out.isLoading))
        /\ toasts' = toasts \o out.toasts
        /\ unhandled' = unhandled + (IF out.rejected THEN 1 ELSE 0)
        /\ IF mounted /\ r.ok /\ r.id > lastOkFetch
           THEN lastOkFetch' = r.id /\ expected' = r.data
           ELSE UNCHANGED ghostVars
    /\ inflight' = inflight \ {r}
    /\ UNCHANGED <<srvItems, srvNextId, nextReq, isDialogOpen, mounted, notPage>>

\* the continuation of handleDelete runs
DeleteContinue(r) ==
    /\ r \in inflight
    /\ r.phase = "replied"
    /\ r.kind = "delete"
    /\ LET out == DeleteSettled(r) IN
        /\ snippets' = SetState(snippets, out.snippets)
        /\ isEditDialogOpen' =
             isEditDialogOpen \cap CardsShown(SetState(snippets, out.snippets), isLoading)
        /\ toasts' = toasts \o out.toasts
        /\ unhandled' = unhandled + (IF out.rejected THEN 1 ELSE 0)
    /\ expected' = IF mounted /\ r.ok
                   THEN SelectSeq(expected, LAMBDA id : id # r.target)
                   ELSE expected
    /\ inflight' = inflight \ {r}
    /\ UNCHANGED <<srvItems, srvNextId, nextReq, isLoading, isDialogOpen, mounted,
                   lastOkFetch, notPage>>

\* the continuation of handleSubmit runs; on success onSuccess() calls
\* fetchSnippets() (setIsLoading(true), a new list call) and closes the dialog
SubmitContinue(r) ==
    /\ r \in inflight
    /\ r.phase = "replied"
    /\ r.kind \in {"create", "update"}
    /\ LET out == SubmitSettled(r) IN
        /\ toasts' = toasts \o out.toasts
        /\ unhandled' = unhandled + (IF out.rejected THEN 1 ELSE 0)
        /\ IF out.onSuccess
           THEN /\ isLoading' = SetState(isLoading, TRUE)
                /\ inflight' = (inflight \ {r}) \cup {Request(nextReq, "list", 0)}
                /\ nextReq' = nextReq + 1
                /\ isDialogOpen' = IF r.kind = "create" THEN SetState(isDialogOpen, FALSE)
                                   ELSE isDialogOpen
                /\ isEditDialogOpen' =
                     (isEditDialogOpen \ {r.target})
                       \cap CardsShown(snippets, SetState(isLoading, TRUE))
           ELSE /\ inflight' = inflight \ {r}
                /\ UNCHANGED <<nextReq, isLoading, isDialogOpen, isEditDialogOpen>>
    /\ UNCHANGED <<srvItems, srvNextId, snippets, mounted, ghostVars, notPage>>

\* the page unmounts (navigation away)
PageUnmount ==
    /\ mounted
    /\ mounted' = FALSE
    /\ UNCHANGED <<snippets, isLoading, isDialogOpen, isEditDialogOpen, toasts, unhandled>>
    /\ UNCHANGED <<apiVars, ghostVars, notPage>>

PageNext ==
    \/ OpenDialog
    \/ CloseDialog
    \/ \E id \in 1..MaxId : OpenEdit(id)
    \/ \E id \in 1..MaxId : CloseEdit(id)
    \/ SubmitCreate
    \/ \E id \in 1..MaxId : SubmitUpdate(id)
    \/ \E id \in 1..MaxId : ClickDelete(id)
    \/ \E r \in inflight : ApiAccept(r)
    \/ \E r \in inflight : ApiReject(r)
    \/ \E r \in inflight : FetchContinue(r)
    \/ \E r \in inflight : DeleteContinue(r)
    \/ \E r \in inflight : SubmitContinue(r)
    \/ PageUnmount

----------------------------------------------------------------------------
(* useClipboard (hooks/index.ts) and handleCopy (snippets/page.tsx) *)

\* setIsCopied of a component that may be gone: React drops the update
SetIsCopied(value) == IF cbMounted THEN value ELSE cbIsCopied

\* setTimeout(() => setIsCopied(false), timeout)
ResetTimer(id) == [id |-> id, remaining |-> TimeoutTicks]

CbInit ==
    /\ cbIsCopied = FALSE
    /\ cbWrites = {}
    /\ cbTimers = {}
    /\ cbNextCopy = 1
    /\ cbMounted = TRUE
    /\ cbToasts = {}
    /\ cbWritten = {}
    /\ cbFailed = {}
    /\ cbLateResets = {}

CbIdle ==
    /\ cbIsCopied = FALSE
    /\ cbWrites = {}
    /\ cbTimers = {}
    /\ cbNextCopy = 1
    /\ cbMounted = FALSE
    /\ cbToasts = {}
    /\ cbWritten = {}
    /\ cbFailed = {}
    /\ cbLateResets = {}

\* handleCopy(code): copyToClipboard(code) runs up to its await, then the
\* success notification is shown
HandleCopy ==
    /\ cbMounted
    /\ cbNextCopy <= MaxCopies
    /\ cbWrites' = cbWrites \cup {cbNextCopy}
    /\ cbToasts' = cbToasts \cup {cbNextCopy}
    /\ cbNextCopy' = cbNextCopy + 1
    /\ UNCHANGED <<cbIsCopied, cbTimers, cbMounted, cbWritten, cbFailed, cbLateResets>>
    /\ UNCHANGED notCb

\* writeText resolved: setIsCopied(true) and the reset timer is started
WriteResolved(w) ==
    /\ w \in cbWrites
    /\ cbWrites' = cbWrites \ {w}
    /\ cbWritten' = cbWritten \cup {w}
    /\ cbIsCopied' = SetIsCopied(TRUE)
    /\ cbTimers' = cbTimers \cup {ResetTimer(w)}
    /\ UNCHANGED <<cbNextCopy, cbMounted, cbToasts, cbFailed, cbLateResets>>
    /\ UNCHANGED notCb

\* writeText rejected: the catch block logs and calls setIsCopied(false)
WriteRejected(w) ==
    /\ w \in cbWrites
    /\ cbWrites' = cbWrites \ {w}
    /\ cbFailed' = cbFailed \cup {w}
    /\ cbIsCopied' = SetIsCopied(FALSE)
    /\ UNCHANGED <<cbTimers, cbNextCopy, cbMounted, cbToasts, cbWritten, cbLateResets>>
    /\ UNCHANGED notCb

\* one tick of time passes
CbTick ==
    /\ \E t \in cbTimers : t.remaining > 0
    /\ cbTimers' = {[t EXCEPT !.remaining = Max(0, t.remaining - 1)] : t \in cbTimers}
    /\ UNCHANGED <<cbIsCopied, cbWrites, cbNextCopy, cbMounted, cbToasts, cbWritten, cbFailed,
                   cbLateResets>>
    /\ UNCHANGED notCb

\* a due reset timer fires: () => setIsCopied(false)
ResetFired(t) ==
    /\ t \in cbTimers
    /\ t.remaining = 0
    /\ cbTimers' = cbTimers \ {t}
    /\ cbIsCopied' = SetIsCopied(FALSE)
    /\ cbLateResets' = IF cbMounted THEN cbLateResets ELSE cbLateResets \cup {t.id}
    /\ UNCHANGED <<cbWrites, cbNextCopy, cbMounted, cbToasts, cbWritten, cbFailed>>
    /\ UNCHANGED notCb

\* the owning component unmounts; the hook registers no cleanup
CbUnmount ==
    /\ cbMounted
    /\ cbMounted' = FALSE
    /\ UNCHANGED <<cbIsCopied, cbWrites, cbTimers, cbNextCopy, cbToasts, cbWritten, cbFailed,
                   cbLateResets>>
    /\ UNCHANGED notCb

CbNext ==
    \/ HandleCopy
    \/ \E w \in cbWrites : WriteResolved(w)
    \/ \E w \in cbWrites : WriteRejected(w)
    \/ CbTick
    \/ \E t \in cbTimers : ResetFired(t)
    \/ CbUnmount

----------------------------------------------------------------------------
(* apiClient (portfolio/page.tsx), the auth store (store/index.ts), the
   dashboard layout's logout and the middleware (part_002) *)

\* error.response?.status === 401
Unauthorized == 401

Statuses == {200, Unauthorized, 500}

\* localStorage.getItem('token') === null, no cookie, token: null
NoToken == "null"

Tokens == {"t1", "t2"}

\* user: null
NoUser == [present |-> FALSE, id |-> 0, firstName |-> ""]

User(id, firstName) == [present |-> TRUE, id |-> id, firstName |-> firstName]

Users == {User(1, "Ann")}

\* the Partial<User> values handed to updateUser
UserData == {[firstName |-> "Bob"], [firstName |-> "Ann"]}

\* { ...state.user, ...userData }
Spread(user, userData) ==
    [f \in DOMAIN user |-> IF f \in DOMAIN userData THEN userData[f] ELSE user[f]]

UpdatedUserAlways(user, userData) == Spread(User(user.id, user.firstName), userData)

\* state.user ? { ...state.user, ...userData } : null
UpdatedUser(user, userData) ==
    IF user.present THEN Spread(user, userData) ELSE NoUser

\* no navigation under way
NoHref == "none"

\* a request without Authorization header
NoAuthorization == <<>>

\* the pages the user moves between
Paths == {"/snippets", "/portfolio", "/login"}

\* the paths a request may name
RequestPaths ==
    {"/portfolio", "/snippets", "/interview-prep", "/blog", "/analytics",
     "/login", "/register", "/snippets/1", "/portfolio/edit", "/blogger",
     "/login/help", "/about", "/"}

\* the characters of a path
Chars(path) ==
    CASE path = "/portfolio" -> <<"/", "p", "o", "r", "t", "f", "o", "l", "i", "o">>
      [] path = "/snippets" -> <<"/", "s", "n", "i", "p", "p", "e", "t", "s">>
      [] path = "/interview-prep" -> <<"/", "i", "n", "t", "e", "r", "v", "i", "e", "w", "-", "p", "r", "e", "p">>
      [] path = "/blog" -> <<"/", "b", "l", "o", "g">>
      [] path = "/analytics" -> <<"/", "a", "n", "a", "l", "y", "t", "i", "c", "s">>
      [] path = "/login" -> <<"/", "l", "o", "g", "i", "n">>
      [] path = "/register" -> <<"/", "r", "e", "g", "i", "s", "t", "e", "r">>
      [] path = "/snippets/1" -> <<"/", "s", "n", "i", "p", "p", "e", "t", "s", "/", "1">>
      [] path = "/portfolio/edit" -> <<"/", "p", "o", "r", "t", "f", "o", "l", "i", "o", "/", "e", "d", "i", "t">>
      [] path = "/blogger" -> <<"/", "b", "l", "o", "g", "g", "e", "r">>
      [] path = "/login/help" -> <<"/", "l", "o", "g", "i", "n", "/", "h", "e", "l", "p">>
      [] path = "/about" -> <<"/", "a", "b", "o", "u", "t">>
      [] path = "/" -> <<"/">>

\* String.prototype.startsWith
StartsWith(str, prefix) ==
    /\ Len(prefix) <= Len(str)
    /\ SubSeq(str, 1, Len(prefix)) = prefix

\* a matcher entry '/root/:path*': the root itself and everything below it
MatchesTree(path, root) ==
    \/ Chars(path) = Chars(root)
    \/ StartsWith(Chars(path), Chars(root) \o <<"/">>)

\* config.matcher: the requests the middleware runs for
MatcherMatches(path) ==
    \/ MatchesTree(path, "/portfolio")
    \/ MatchesTree(path, "/snippets")
    \/ MatchesTree(path, "/interview-prep")
    \/ MatchesTree(path, "/blog")
    \/ MatchesTree(path, "/analytics")
    \/ Chars(path) = Chars("/login")
    \/ Chars(path) = Chars("/register")

IsAuthPageLoginOnly(path) == StartsWith(Chars(path), Chars("/login"))

IsAuthPage(path) ==
    \/ StartsWith(Chars(path), Chars("/login"))
    \/ StartsWith(Chars(path), Chars("/register"))

IsDashboard(path) ==
    \/ StartsWith(Chars(path), Chars("/portfolio"))
    \/ StartsWith(Chars(path), Chars("/snippets"))
    \/ StartsWith(Chars(path), Chars("/interview-prep"))
    \/ StartsWith(Chars(path), Chars("/blog"))
    \/ StartsWith(Chars(path), Chars("/analytics"))

Redirect(path) == [kind |-> "redirect", to |-> path]

PassThrough(path) == [kind |-> "next", to |-> path]

Pending == [kind |-> "pending", to |-> ""]

\* the function middleware(request)
MiddlewareResponse(path, token) ==
    IF IsDashboard(path) /\ token = NoToken
    THEN Redirect("/login")
    ELSE IF IsAuthPage(path) /\ token # NoToken
         THEN Redirect("/portfolio")
         ELSE PassThrough(path)

\* the answer to a request: the middleware runs for the matched paths only
Route(path, token) ==
    IF MatcherMatches(path)
    THEN MiddlewareResponse(path, token)
    ELSE PassThrough(path)

\* the path the middleware lets the request for `path` end on
Middleware(path, token) == Route(path, token).to

MwInit ==
    /\ mwPath \in RequestPaths
    /\ mwCookie \in Tokens \cup {NoToken}
    /\ mwResponse = Pending
    /\ mwHops = 0
    /\ mwVisits = 1

MwIdle ==
    /\ mwPath = "/"
    /\ mwCookie = NoToken
    /\ mwResponse = Pending
    /\ mwHops = 0
    /\ mwVisits = 0

\* the request at hand reaches the server
MwHandle ==
    /\ mwVisits > 0
    /\ mwResponse = Pending
    /\ mwResponse' = Route(mwPath, mwCookie)
    /\ UNCHANGED <<mwPath, mwCookie, mwHops, mwVisits>>
    /\ UNCHANGED notMw

\* the browser follows a redirect, with the same cookies
MwFollow ==
    /\ mwResponse.kind = "redirect"
    /\ mwPath' = mwResponse.to
    /\ mwResponse' = Pending
    /\ mwHops' = mwHops + 1
    /\ UNCHANGED <<mwCookie, mwVisits>>
    /\ UNCHANGED notMw

\* the page has loaded; the browser makes another request
MwRequest(path, token) ==
    /\ mwResponse.kind = "next"
    /\ mwVisits < MaxVisits
    /\ mwPath' = path
    /\ mwCookie' = token
    /\ mwResponse' = Pending
    /\ mwHops' = 0
    /\ mwVisits' = mwVisits + 1
    /\ UNCHANGED notMw

MwNext ==
    \/ MwHandle
    \/ MwFollow
    \/ \E path \in RequestPaths, token \in Tokens \cup {NoToken} : MwRequest(path, token)

\* the request interceptor: the Authorization header it leaves on the config
RequestInterceptor(token) ==
    IF token # NoToken
    THEN <<"Bearer", token>>
    ELSE NoAuthorization

ResponseInterceptorSwallow(status, token, target) ==
    IF status = 200
    THEN [settle |-> "resolved", token |-> token, href |-> target]
    ELSE IF status = Unauthorized
         THEN [settle |-> "resolved", token |-> NoToken, href |-> "/login"]
         ELSE [settle |-> "rejected", token |-> token, href |-> target]

\* the response interceptor: how the call settles, localStorage 'token' and
\* window.location.href after it
ResponseInterceptor(status, token, target) ==
    IF status = 200
    THEN [settle |-> "resolved", token |-> token, href |-> target]
    ELSE IF status = Unauthorized
         THEN [settle |-> "rejected", token |-> NoToken, href |-> "/login"]
         ELSE [settle |-> "rejected", token |-> token, href |-> target]

\* the try/catch around every API call of the snippets page
CallSiteNotifies(settle) == settle = "rejected"

AuInitLoggedIn ==
    /\ lsToken \in Tokens
    /\ cookieToken = lsToken
    /\ stToken = lsToken
    /\ stUser \in Users
    /\ stIsAuthenticated = TRUE
    /\ location = "/snippets"

AuInitLoggedOut ==
    /\ lsToken = NoToken
    /\ cookieToken = NoToken
    /\ stToken = NoToken
    /\ stUser = NoUser
    /\ stIsAuthenticated = FALSE
    /\ location = "/login"

AuInit ==
    /\ AuInitLoggedIn \/ AuInitLoggedOut
    /\ href = NoHref
    /\ auInflight = {}
    /\ auNextCall = 1
    /\ auSettled = {}
    /\ auUnhandled = {}

AuIdle ==
    /\ AuInitLoggedOut
    /\ href = NoHref
    /\ auInflight = {}
    /\ auNextCall = 1
    /\ auSettled = {}
    /\ auUnhandled = {}

\* a dashboard page calls the API: the request interceptor runs at send time
AuRequest ==
    /\ IsDashboard(location)
    /\ href = NoHref
    /\ auNextCall <= MaxCalls
    /\ auInflight' = auInflight \cup
            {[id |-> auNextCall, stored |-> lsToken,
              authorization |-> RequestInterceptor(lsToken)]}
    /\ auNextCall' = auNextCall + 1
    /\ UNCHANGED <<lsToken, cookieToken, stToken, stUser, stIsAuthenticated, location, href,
                   auSettled, auUnhandled>>
    /\ UNCHANGED notAu

\* a response arrives: the response interceptor, then the call site
AuResponse(r, status) ==
    /\ r \in auInflight
    /\ LET after == ResponseInterceptor(status, lsToken, href) IN
        /\ lsToken' = after.token
        /\ href' = after.href
        /\ auSettled' = auSettled \cup
                {[id |-> r.id, stored |-> r.stored,
                  authorization |-> r.authorization, status |-> status,
                  settle |-> after.settle, href |-> after.href,
                  notified |-> CallSiteNotifies(after.settle)]}
        /\ auUnhandled' = IF after.settle = "rejected" /\ ~CallSiteNotifies(after.settle)
                          THEN auUnhandled \cup {r.id}
                          ELSE auUnhandled
    /\ auInflight' = auInflight \ {r}
    /\ UNCHANGED <<cookieToken, stToken, stUser, stIsAuthenticated, location, auNextCall>>
    /\ UNCHANGED notAu

\* the auth store's login(token, user), called on the login page
StoreLogin(token, user) ==
    /\ IsAuthPage(location)
    /\ href = NoHref
    /\ lsToken' = token
    /\ cookieToken' = token
    /\ stToken' = token
    /\ stUser' = user
    /\ stIsAuthenticated' = TRUE
    /\ UNCHANGED <<location, href, auInflight, auNextCall, auSettled, auUnhandled>>
    /\ UNCHANGED notAu

\* the auth store's updateUser(userData)
UpdateUser(userData) ==
    /\ stUser' = UpdatedUser(stUser, userData)
    /\ UNCHANGED <<lsToken, cookieToken, stToken, stIsAuthenticated, location, href,
                   auInflight, auNextCall, auSettled, auUnhandled>>
    /\ UNCHANGED notAu

\* the dashboard layout's handleLogout: logout(); router.push('/login')
HandleLogout ==
    /\ IsDashboard(location)
    /\ href = NoHref
    /\ lsToken' = NoToken
    /\ cookieToken' = NoToken
    /\ stToken' = NoToken
    /\ stUser' = NoUser
    /\ stIsAuthenticated' = FALSE
    /\ href' = "/login"
    /\ UNCHANGED <<location, auInflight, auNextCall, auSettled, auUnhandled>>
    /\ UNCHANGED notAu

\* the user follows a link or enters a path
Navigate(path) ==
    /\ href = NoHref
    /\ path # location
    /\ href' = path
    /\ UNCHANGED <<lsToken, cookieToken, stToken, stUser, stIsAuthenticated, location,
                   auInflight, auNextCall, auSettled, auUnhandled>>
    /\ UNCHANGED notAu

\* the navigation under way passes the middleware and the page loads
PageLoad ==
    /\ href # NoHref
    /\ location' = Middleware(href, cookieToken)
    /\ href' = NoHref
    /\ UNCHANGED <<lsToken, cookieToken, stToken, stUser, stIsAuthenticated,
                   auInflight, auNextCall, auSettled, auUnhandled>>
    /\ UNCHANGED notAu

AuNext ==
    \/ AuRequest
    \/ \E r \in auInflight, status \in Statuses : AuResponse(r, status)
    \/ \E token \in Tokens, user \in Users : StoreLogin(token, user)
    \/ \E userData \in UserData : UpdateUser(userData)
    \/ HandleLogout
    \/ \E path \in Paths : Navigate(path)
    \/ PageLoad

----------------------------------------------------------------------------
(* useToggle (hooks/index.ts) *)

\* the update a setter call hands to React: a value, or a function of the
\* state at the time the update is applied
ConstUpdate(b) == [kind |-> "value", val |-> b]

ToggleUpdateFromRender(rendered) == [kind |-> "value", val |-> ~rendered]

\* toggle of a render that shows `rendered`: setValue((prev) => !prev)
ToggleUpdate(rendered) == [kind |-> "updater", val |-> FALSE]

\* React applies one queued update to the state
ApplyUpdate(update, prev) == IF update.kind = "updater" THEN ~prev ELSE update.val

RECURSIVE ApplyQueue(_, _)
\* the state after the queued updates, applied in call order
ApplyQueue(queue, prev) ==
    IF queue = <<>>
    THEN prev
    ELSE ApplyQueue(Tail(queue), ApplyUpdate(Head(queue), prev))

TgInit ==
    /\ tgInitial \in BOOLEAN
    /\ tgValue = tgInitial
    /\ tgQueue = <<>>
    /\ tgLog = <<>>

TgIdle ==
    /\ tgInitial = FALSE
    /\ tgValue = FALSE
    /\ tgQueue = <<>>
    /\ tgLog = <<>>

\* toggle()
Toggle ==
    /\ Len(tgLog) < MaxToggleCalls
    /\ tgQueue' = Append(tgQueue, ToggleUpdate(tgValue))
    /\ tgLog' = Append(tgLog, [op |-> "toggle", arg |-> FALSE])
    /\ UNCHANGED <<tgInitial, tgValue>>
    /\ UNCHANGED notTg

\* setTrue(): setValue(true)
SetTrue ==
    /\ Len(tgLog) < MaxToggleCalls
    /\ tgQueue' = Append(tgQueue, ConstUpdate(TRUE))
    /\ tgLog' = Append(tgLog, [op |-> "setTrue", arg |-> TRUE])
    /\ UNCHANGED <<tgInitial, tgValue>>
    /\ UNCHANGED notTg

\* setFalse(): setValue(false)
SetFalse ==
    /\ Len(tgLog) < MaxToggleCalls
    /\ tgQueue' = Append(tgQueue, ConstUpdate(FALSE))
    /\ tgLog' = Append(tgLog, [op |-> "setFalse", arg |-> FALSE])
    /\ UNCHANGED <<tgInitial, tgValue>>
    /\ UNCHANGED notTg

\* setValue(b), the state setter itself
SetValue(b) ==
    /\ Len(tgLog) < MaxToggleCalls
    /\ tgQueue' = Append(tgQueue, ConstUpdate(b))
    /\ tgLog' = Append(tgLog, [op |-> "setValue", arg |-> b])
    /\ UNCHANGED <<tgInitial, tgValue>>
    /\ UNCHANGED notTg

\* React re-renders: the queued updates are applied in order
TgRender ==
    /\ tgQueue # <<>>
    /\ tgValue' = ApplyQueue(tgQueue, tgValue)
    /\ tgQueue' = <<>>
    /\ UNCHANGED <<tgInitial, tgLog>>
    /\ UNCHANGED notTg

TgNext ==
    \/ Toggle
    \/ SetTrue
    \/ SetFalse
    \/ \E b \in BOOLEAN : SetValue(b)
    \/ TgRender

----------------------------------------------------------------------------
(* The tag options and the selected tags (snippets/page.tsx) *)

RECURSIVE AddTags(_, _)
\* snippet.tags.forEach((tag) => tags.add(tag)) on a Set kept in insertion order
AddTags(acc, tags) ==
    IF tags = <<>>
    THEN acc
    ELSE AddTags(IF ArrayIncludes(acc, Head(tags)) THEN acc ELSE Append(acc, Head(tags)),
                 Tail(tags))

RECURSIVE CollectTags(_, _)
CollectTags(acc, list) ==
    IF list = <<>>
    THEN acc
    ELSE CollectTags(AddTags(acc, Head(list).tags), Tail(list))

\* allTags: Array.from of the Set of every snippet's tags
AllTags(list) == CollectTags(<<>>, list)

\* the updater of the badge's onClick
ToggleTag(prev, tag) ==
    IF ArrayIncludes(prev, tag)
    THEN SelectSeq(prev, LAMBDA t : t # tag)
    ELSE Append(prev, tag)

\* the snippets of the pool in id order
PoolList ==
    [i \in 1..Cardinality(SnippetPool) |-> CHOOSE sn \in SnippetPool : sn.id = i]

\* what getAll() may return: each stored snippet once
FetchedLists ==
    {SelectSeq(PoolList, LAMBDA sn : sn.id \in ids) : ids \in SUBSET {sn.id : sn \in SnippetPool}}

TsInit ==
    /\ tsSnippets = <<>>
    /\ tsSelected = <<>>
    /\ tsLast = "mount"

TsIdle ==
    /\ tsSnippets = <<>>
    /\ tsSelected = <<>>
    /\ tsLast = "idle"

\* a click on the badge of one of the tags on offer
ClickTag(tag) ==
    /\ ArrayIncludes(AllTags(tsSnippets), tag)
    /\ tsSelected' = ToggleTag(tsSelected, tag)
    /\ tsLast' = "click"
    /\ UNCHANGED tsSnippets
    /\ UNCHANGED notTs

\* a fetch has succeeded: setSnippets(data)
TsFetched(data) ==
    /\ data # tsSnippets
    /\ tsSnippets' = data
    /\ tsLast' = "fetch"
    /\ UNCHANGED tsSelected
    /\ UNCHANGED notTs

\* a delete has succeeded: setSnippets((prev) => prev.filter((s) => s.id !== id))
TsDeleted(id) ==
    /\ \E i \in 1..Len(tsSnippets) : tsSnippets[i].id = id
    /\ tsSnippets' = SelectSeq(tsSnippets, LAMBDA sn : sn.id # id)
    /\ tsLast' = "delete"
    /\ UNCHANGED tsSelected
    /\ UNCHANGED notTs

TsNext ==
    \/ \E tag \in {"react", "hooks", "vue", "testing"} : ClickTag(tag)
    \/ \E data \in FetchedLists : TsFetched(data)
    \/ \E sn \in SnippetPool : TsDeleted(sn.id)

----------------------------------------------------------------------------
(* useAsync (hooks/index.ts) *)

\* data: null, error: null
Null == 0

\* the body of execute up to its await: setStatus('pending'), setData(null),
\* setError(null), asyncFunction() called
Started(call) ==
    [status |-> "pending", data |-> Null, error |-> Null]

\* the try branch after the await: setData(response), setStatus('success')
Resolved(call, status, data, error) ==
    [status |-> "success", data |-> call, error |-> error]

\* the catch branch: setError(error), setStatus('error')
Rejected(call, status, data, error) ==
    [status |-> "error", data |-> data, error |-> call]

AsInitState ==
    /\ asStatus = "idle"
    /\ asData = Null
    /\ asError = Null
    /\ asCalls = {}
    /\ asNextCall = 1
    /\ asOutcomes = {}

\* after the mount: nothing called (immediate false), or the effect has
\* called execute() (immediate true)
AsInit ==
    \/ AsInitState
    \/ /\ asStatus = Started(1).status
       /\ asData = Started(1).data
       /\ asError = Started(1).error
       /\ asCalls = {1}
       /\ asNextCall = 2
       /\ asOutcomes = {}

AsIdle == AsInitState

\* execute()
Execute ==
    /\ asNextCall <= MaxExecutes
    /\ asStatus' = Started(asNextCall).status
    /\ asData' = Started(asNextCall).data
    /\ asError' = Started(asNextCall).error
    /\ asCalls' = asCalls \cup {asNextCall}
    /\ asNextCall' = asNextCall + 1
    /\ UNCHANGED asOutcomes
    /\ UNCHANGED notAs

\* asyncFunction() of one call resolves
AsResolve(call) ==
    /\ call \in asCalls
    /\ LET after == Resolved(call, asStatus, asData, asError) IN
        /\ asStatus' = after.status
        /\ asData' = after.data
        /\ asError' = after.error
    /\ asCalls' = asCalls \ {call}
    /\ asOutcomes' = asOutcomes \cup {[call |-> call, ok |-> TRUE]}
    /\ UNCHANGED asNextCall
    /\ UNCHANGED notAs

\* asyncFunction() of one call rejects
AsReject(call) ==
    /\ call \in asCalls
    /\ LET after == Rejected(call, asStatus, asData, asError) IN
        /\ asStatus' = after.status
        /\ asData' = after.data
        /\ asError' = after.error
    /\ asCalls' = asCalls \ {call}
    /\ asOutcomes' = asOutcomes \cup {[call |-> call, ok |-> FALSE]}
    /\ UNCHANGED asNextCall
    /\ UNCHANGED notAs

AsNext ==
    \/ Execute
    \/ \E call \in asCalls : AsResolve(call)
    \/ \E call \in asCalls : AsReject(call)

----------------------------------------------------------------------------
(* The specifications *)

InitDebounce == DbInit /\ PgIdle /\ FlIdle /\ PageIdle /\ CbIdle /\ AuIdle /\ TgIdle /\ MwIdle /\ TsIdle /\ AsIdle

InitPagination == PgInit /\ DbIdle /\ FlIdle /\ PageIdle /\ CbIdle /\ AuIdle /\ TgIdle /\ MwIdle /\ TsIdle /\ AsIdle

InitFilter == FlInit /\ DbIdle /\ PgIdle /\ PageIdle /\ CbIdle /\ AuIdle /\ TgIdle /\ MwIdle /\ TsIdle /\ AsIdle

InitPage == PageInit /\ DbIdle /\ PgIdle /\ FlIdle /\ CbIdle /\ AuIdle /\ TgIdle /\ MwIdle /\ TsIdle /\ AsIdle

\* useDebounce alone
SpecDebounce == InitDebounce /\ [][DbNext]_vars

\* useDebounce with time passing and due timers firing
FairDebounce ==
    /\ SpecDebounce
    /\ WF_vars(DbTick)
    /\ WF_vars(\E t \in dbTimers : DbFire(t))

\* usePagination over a fixed list
SpecPagination == InitPagination /\ [][PgNext]_vars

\* usePagination whose list changes between renders
SpecPaginationResize == InitPagination /\ [][PgResizeNext]_vars

\* the filter composition over bounded lists and criteria
SpecFilter == InitFilter /\ [][FlNext]_vars

\* the snippets page and its API calls
SpecPage == InitPage /\ [][PageNext]_vars

InitClipboard == CbInit /\ DbIdle /\ PgIdle /\ FlIdle /\ PageIdle /\ AuIdle /\ TgIdle /\ MwIdle /\ TsIdle /\ AsIdle

\* useClipboard under handleCopy, with time passing
SpecClipboard == InitClipboard /\ [][CbNext]_vars

InitAuth == AuInit /\ DbIdle /\ PgIdle /\ FlIdle /\ PageIdle /\ CbIdle /\ TgIdle /\ MwIdle /\ TsIdle /\ AsIdle

\* apiClient with the auth store, logout and navigation
SpecAuth == InitAuth /\ [][AuNext]_vars

InitToggle == TgInit /\ DbIdle /\ PgIdle /\ FlIdle /\ PageIdle /\ CbIdle /\ AuIdle /\ MwIdle /\ TsIdle /\ AsIdle

\* one useToggle instance under calls and re-renders
SpecToggle == InitToggle /\ [][TgNext]_vars

InitMiddleware == MwInit /\ DbIdle /\ PgIdle /\ FlIdle /\ PageIdle /\ CbIdle /\ AuIdle /\ TgIdle /\ TsIdle /\ AsIdle

\* requests passing the middleware, redirects followed
SpecMiddleware == InitMiddleware /\ [][MwNext]_vars

InitTags == TsInit /\ DbIdle /\ PgIdle /\ FlIdle /\ PageIdle /\ CbIdle /\ AuIdle /\ TgIdle /\ MwIdle /\ AsIdle

\* the tag badges under fetches and deletes
SpecTags == InitTags /\ [][TsNext]_vars

InitAsync ==
    AsInit /\ DbIdle /\ PgIdle /\ FlIdle /\ PageIdle /\ CbIdle /\ AuIdle /\ TgIdle /\ MwIdle /\ TsIdle

\* one useAsync instance under overlapping execute() calls
SpecAsync == InitAsync /\ [][AsNext]_vars

----------------------------------------------------------------------------
(* Properties of usePagination *)

\* C1: over a fixed list and page size p > 0, after any sequence of goToPage(n)
\* (any integer n), nextPage and prevPage calls,
\* 1 <= currentPage <= max(1, ceil(len(L) / p)).
C1_CurrentPageInRange ==
    /\ 1 <= pgCurrentPage
    /\ pgCurrentPage <= Max(1, TotalPages(pgItems, pgPerPage))

\* goToPage(n) with n beyond the last page of a list of several pages was clamped
C1_Witness ==
    /\ pgLastCall.op = "goToPage"
    /\ pgLastCall.arg > TotalPages(pgItems, pgPerPage)
    /\ TotalPages(pgItems, pgPerPage) >= 2
    /\ pgCurrentPage = TotalPages(pgItems, pgPerPage)

\* C2: when the list shrinks so that totalPages drops below the current page,
\* the render that receives the new list has currentPage back in
\* [1, max(1, totalPages)] and the window holds the items of that page.
C2_ReclampedOnShrink ==
    pgLastCall.op = "setItems" =>
        /\ 1 <= pgCurrentPage
        /\ pgCurrentPage <= Max(1, TotalPages(pgItems, pgPerPage))
        /\ (pgItems # <<>> => PaginatedItems(pgItems, pgCurrentPage, pgPerPage) # <<>>)

\* the least number of pages of perPage items that hold len items
CeilOf(len, perPage) ==
    CHOOSE n \in 0..len : n * perPage >= len /\ \A k \in 0..(n - 1) : k * perPage < len

RECURSIVE Windows(_, _, _)
\* the windows of pages 1..k, concatenated in page order
Windows(items, perPage, k) ==
    IF k = 0
    THEN <<>>
    ELSE Windows(items, perPage, k - 1) \o PaginatedItems(items, k, perPage)

\* C16: each page window has at most p items, the windows of pages
\* 1..totalPages concatenated in page order equal L, and every page except
\* possibly the last holds exactly p items.
C16_WindowsPartitionList ==
    LET tp == TotalPages(pgItems, pgPerPage) IN
    /\ Len(pgClosure.paginatedItems) <= pgPerPage
    /\ \A k \in 1..tp :
        /\ Len(PaginatedItems(pgItems, k, pgPerPage)) <= pgPerPage
        /\ k < tp => Len(PaginatedItems(pgItems, k, pgPerPage)) = pgPerPage
    /\ Windows(pgItems, pgPerPage, tp) = pgItems

\* several full pages and a shorter last page, which is the one rendered
C16_Witness ==
    /\ pgPerPage = 2
    /\ Len(pgItems) = 5
    /\ pgClosure.currentPage = 3
    /\ pgClosure.paginatedItems = <<5>>
    /\ PaginatedItems(pgItems, 2, pgPerPage) = <<3, 4>>

\* C17: goToPage(n) sets currentPage to n when 1 <= n <= totalPages, to 1 when
\* n < 1 and to totalPages when n > totalPages (totalPages >= 1); nextPage and
\* prevPage act as goToPage(currentPage + 1) and goToPage(currentPage - 1) on
\* the current page at the time of the call, so that two nextPage calls in a
\* row advance two pages when room exists.
C17_NavigationFromCurrentPage ==
    LET tp == TotalPages(pgItems, pgPerPage)
        Target(n) == IF n < 1 THEN 1 ELSE IF n > tp THEN tp ELSE n
    IN  tp >= 1 =>
        /\ pgLastCall.op = "goToPage" => pgCurrentPage = Target(pgLastCall.arg)
        /\ pgLastCall.op = "nextPage" => pgCurrentPage = Target(pgLastCall.from + 1)
        /\ pgLastCall.op = "prevPage" => pgCurrentPage = Target(pgLastCall.from - 1)

\* C18: hasNextPage is true exactly when nextPage would increase currentPage,
\* hasPrevPage exactly when prevPage would decrease it, and an operation whose
\* flag is false leaves currentPage unchanged; also after the list changed size.
C18_FlagsTellNavigation ==
    [][(NextPage => (/\ pgClosure.hasNextPage <=> pgCurrentPage' > pgCurrentPage
                     /\ ~pgClosure.hasNextPage => pgCurrentPage' = pgCurrentPage))
       /\ (PrevPage => (/\ pgClosure.hasPrevPage <=> pgCurrentPage' < pgCurrentPage
                        /\ ~pgClosure.hasPrevPage => pgCurrentPage' = pgCurrentPage))]_vars

----------------------------------------------------------------------------
(* Properties of useDebounce *)

\* C7: trailing edge. At most one timer is pending; a new input value cancels
\* the pending timer and starts a fresh one with the full delay; the debounced
\* value changes only when the timer of the most recent input change fires after
\* its delay, and then to that input; a cancelled timer never fires.
C7_TrailingEdge ==
    /\ [](Cardinality(dbTimers) <= 1)
    /\ [][dbValue' # dbValue =>
            dbTimers' = {[id |-> dbHandler', val |-> dbValue', remaining |-> DelayTicks]}]_vars
    /\ [][dbDebounced' # dbDebounced =>
            \E t \in dbTimers :
                /\ t.id = dbHandler
                /\ t.remaining = 0
                /\ t.val = dbValue
                /\ dbDebounced' = dbValue
                /\ dbTimers' = {}]_vars
    /\ [][\A id \in dbFired' \ dbFired : id = dbHandler]_vars

\* the timer of a third or later input fired and emitted it, the timer before it
\* having been cancelled
C7_Witness ==
    \E id \in dbFired :
        /\ id >= 3
        /\ id = dbHandler
        /\ (id - 1) \notin dbFired
        /\ dbDebounced = dbValue
        /\ dbDebounced # ""

\* C8: once no timer is pending the debounced value equals the latest input and
\* stays so until the next input change; when the input stops changing the
\* debounced value eventually equals the latest input (while the hook is mounted).
C8_EventuallyLatest ==
    /\ []((dbMounted /\ dbTimers = {}) => dbDebounced = dbValue)
    /\ <>[](dbMounted => dbDebounced = dbValue)

\* the input changed, its delay elapsed, and the debounced value caught up
C8_Witness ==
    /\ dbMounted
    /\ dbTimers = {}
    /\ dbHandler >= 2
    /\ dbHandler \in dbFired
    /\ dbDebounced = dbValue

\* C9: teardown while a delay is pending cancels the timer, and the debounced
\* value is never updated afterwards.
C9_NoEmissionAfterTeardown ==
    /\ [](~dbMounted => dbTimers = {})
    /\ [][~dbMounted => (dbDebounced' = dbDebounced /\ dbFired' = dbFired)]_vars

\* unmounted while the delay of a new input was pending: that input was never emitted
C9_Witness ==
    /\ ~dbMounted
    /\ dbTimers = {}
    /\ dbDebounced # dbValue
    /\ (dbNextTimer - 1) \notin dbFired

----------------------------------------------------------------------------
(* Properties of the filter composition *)

RECURSIVE IsSubsequence(_, _)
\* sub is obtained from list by deleting elements, the order of the rest kept
IsSubsequence(sub, list) ==
    IF sub = <<>> THEN TRUE
    ELSE IF list = <<>> THEN FALSE
    ELSE IF Head(sub) = Head(list) THEN IsSubsequence(Tail(sub), Tail(list))
    ELSE IsSubsequence(sub, Tail(list))

C11_FilterIdempotent ==
    flPc = "again" => flAgain = flResult

\* a second pass over a list the first pass had shortened to two items
C11_Witness ==
    /\ flPc = "again"
    /\ Len(flSnippets) = 3
    /\ Len(flResult) = 2
    /\ flResult[1] # flResult[2]
    /\ flAgain = flResult

\* the characters of a string, lower-cased one by one
SameLetter(c, d) == LowerChar(c) = LowerChar(d)

\* text occurs in str at some offset, letter case ignored
OccursIgnoringCase(str, text) ==
    \E off \in 0..(Len(str) - Len(text)) :
        \A j \in 1..Len(text) : SameLetter(str[off + j], text[j])

\* the three criteria, stated on one item
PassesText(sn, text) ==
    text # <<>> =>
        \/ OccursIgnoringCase(sn.title, text)
        \/ (sn.description.present /\ OccursIgnoringCase(sn.description.text, text))
        \/ OccursIgnoringCase(sn.code, text)

PassesCategory(sn, category) == category # "all" => sn.language = category

PassesTags(sn, tags) == Range(tags) # {} => Range(sn.tags) \cap Range(tags) # {}

\* C12: with a non-empty selected tag set an item is kept by the tag filter iff
\* it carries at least one selected tag; an item with no tags is excluded by any
\* non-empty tag filter; an empty selection excludes nothing.
C12_TagFilterIsOr ==
    flPc = "done" =>
        LET before == LanguageStage(SearchStage(flSnippets, flSearch), flLanguage) IN
        /\ flResult = SelectSeq(before, LAMBDA sn : PassesTags(sn, flTags))
        /\ flTags = <<>> => flResult = before
        /\ flTags # <<>> => \A i \in 1..Len(flResult) : flResult[i].tags # <<>>

\* two tags selected: an item carrying only one of them is kept, an item
\* without tags and an item with another tag are dropped
C12_Witness ==
    /\ flPc = "done"
    /\ flSearch = <<>>
    /\ flLanguage = "all"
    /\ Len(flTags) = 2
    /\ Len(flSnippets) = 3
    /\ Len(flResult) = 1
    /\ \E i \in 1..3 : flSnippets[i].tags = <<>>
    /\ \E i \in 1..3 : flSnippets[i].tags = <<"vue">>
    /\ flResult[1].tags = <<"hooks", "testing">>

\* C13: with non-empty search text an item passes the text filter iff the text,
\* letter case ignored, is a substring of its title, its description or its
\* code; an absent description is skipped; empty text excludes nothing.
C13_TextFilterIsCaseInsensitiveSubstring ==
    flPc = "done" =>
        /\ SearchStage(flSnippets, flSearch)
              = SelectSeq(flSnippets, LAMBDA sn : PassesText(sn, flSearch))
        /\ \A i \in 1..Len(flResult) : PassesText(flResult[i], flSearch)
        /\ flSearch = <<>> => SearchStage(flSnippets, flSearch) = flSnippets

\* an upper-case search text kept an item by its title, one by its description
\* and one, without description, by its code
C13_Witness ==
    /\ flPc = "done"
    /\ flSearch = <<"F", "O", "O">>
    /\ flLanguage = "all"
    /\ flTags = <<>>
    /\ Len(flResult) = 3
    /\ {flResult[i].id : i \in 1..3} = {1, 2, 3}

\* C14: an item is in the filtered list iff it passes the text, the category
\* and the tag criterion together; the category criterion keeps the items whose
\* category equals the selected one and "all" keeps every item; the order of
\* the three stages does not change the result.
C14_AllCriteriaAndOrderFree ==
    flPc = "done" =>
        /\ flResult = SelectSeq(flSnippets,
                                LAMBDA sn : /\ PassesText(sn, flSearch)
                                            /\ PassesCategory(sn, flLanguage)
                                            /\ PassesTags(sn, flTags))
        /\ flResult = TagStage(SearchStage(LanguageStage(flSnippets, flLanguage), flSearch), flTags)
        /\ flResult = SearchStage(TagStage(LanguageStage(flSnippets, flLanguage), flTags), flSearch)
        /\ flResult = SearchStage(LanguageStage(TagStage(flSnippets, flTags), flLanguage), flSearch)
        /\ flResult = LanguageStage(SearchStage(TagStage(flSnippets, flTags), flSearch), flLanguage)
        /\ flResult = LanguageStage(TagStage(SearchStage(flSnippets, flSearch), flTags), flLanguage)

\* all three criteria set: of three items passing the text criterion one also
\* passes the category and the tag criterion
C14_Witness ==
    /\ flPc = "done"
    /\ flSearch # <<>>
    /\ flLanguage # "all"
    /\ flTags # <<>>
    /\ Len(flSnippets) = 3
    /\ \A i \in 1..3 : PassesText(flSnippets[i], flSearch)
    /\ \E i \in 1..3 : ~PassesCategory(flSnippets[i], flLanguage)
    /\ \E i \in 1..3 : ~PassesTags(flSnippets[i], flTags)
    /\ Len(flResult) = 1

----------------------------------------------------------------------------
(* Properties of the snippets page *)

\* the continuation of call r runs in this step
Settles(r) == r \in inflight /\ r.phase = "replied" /\ r \notin inflight'

\* a list call is issued in this step
RefetchIssued ==
    /\ nextReq' = nextReq + 1
    /\ Request(nextReq, "list", 0) \in inflight'

Last(seq) == seq[Len(seq)]

PendingFetches == {r \in inflight : r.kind = "list"}

\* C3: with overlapping list calls the response of an earlier-issued call never
\* replaces that of a later-issued one: once every list call has settled, the
\* list is the response of the latest-issued call that succeeded (less the ids
\* deleted since).
C3_LatestFetchWins ==
    (mounted /\ PendingFetches = {} /\ lastOkFetch > 0) => snippets = expected

C5_RejectedDeleteChangesNothing ==
    [][\A r \in inflight :
         (Settles(r) /\ r.kind = "delete" /\ ~r.ok) =>
             /\ snippets' = snippets
             /\ toasts' = Append(toasts, ToastError("Failed to delete snippet"))
             /\ nextReq' = nextReq]_vars

\* a delete of a listed snippet was rejected: the snippet is still listed
C5_Witness ==
    /\ mounted
    /\ toasts # <<>>
    /\ Last(toasts) = ToastError("Failed to delete snippet")
    /\ snippets # <<>>
    /\ Range(snippets) = srvItems

\* the failure notification of a call of each kind
FailureToast(kind) ==
    IF kind = "list" THEN ToastError("Failed to load snippets")
    ELSE ToastError("Failed to save snippet")

\* C6: a rejected list fetch, create or update is caught where it is called: one
\* failure notification, the list as before, no success path (no re-fetch, no
\* dialog closed), and no unhandled rejection.
C6_RejectionCaughtAtCallSite ==
    /\ [](unhandled = 0)
    /\ [][\A r \in inflight :
            (Settles(r) /\ r.kind \in {"list", "create", "update"} /\ ~r.ok) =>
                /\ snippets' = snippets
                /\ toasts' = Append(toasts, FailureToast(r.kind))
                /\ nextReq' = nextReq
                /\ PendingFetches' = PendingFetches \ {r}
                /\ isDialogOpen' = isDialogOpen
                /\ isEditDialogOpen' = isEditDialogOpen]_vars

\* a create was rejected after the first list had loaded: the dialog is still
\* open, the list is as loaded and no call is pending
C6_Witness ==
    /\ mounted
    /\ toasts = <<ToastError("Failed to save snippet")>>
    /\ isDialogOpen
    /\ inflight = {}
    /\ snippets # <<>>

\* the API calls a step issues
Issued == {r \in inflight' : r.id >= nextReq}

IssuedKinds == {r.kind : r \in Issued}

\* a step in which the continuation of a failed call runs
FailureHandled == \E r \in inflight : r.phase = "replied" /\ ~r.ok /\ r \notin inflight'

\* a step in which the continuation of a successful create or update runs
SaveSucceeded ==
    \E r \in inflight :
        r.phase = "replied" /\ r.ok /\ r.kind \in {"create", "update"} /\ r \notin inflight'

\* C21: no retries. Each user-initiated create, update or delete issues exactly
\* one API call for that operation (the mount issues one list call); a call is
\* issued only by a user action or as the re-fetch after a successful save; the
\* handling of a failure issues no call.
C21_NoRetries ==
    [][/\ Cardinality(Issued) <= 1
       /\ nextReq' = nextReq + Cardinality(Issued)
       /\ (SubmitCreate => IssuedKinds = {"create"})
       /\ ((\E id \in 1..MaxId : SubmitUpdate(id)) => IssuedKinds = {"update"})
       /\ ((\E id \in 1..MaxId : ClickDelete(id)) => IssuedKinds = {"delete"})
       /\ ((Issued # {} /\ IssuedKinds \cap Mutations = {}) =>
              (SaveSucceeded /\ IssuedKinds = {"list"}))
       /\ (FailureHandled => Issued = {})]_vars

\* after the mount's fetch a create and a delete have failed and were
\* notified; three calls were issued in all and none is pending
C21_Witness ==
    /\ inflight = {}
    /\ nextReq = 4
    /\ Len(toasts) = 2
    /\ {toasts[i] : i \in 1..2} =
         {ToastError("Failed to save snippet"), ToastError("Failed to delete snippet")}

\* C26: isLoading is true whenever at least one list fetch is in flight and is
\* false only when no fetch is pending: with two overlapping fetches the
\* completion of the first does not clear isLoading while the second is pending.
C26_LoadingWhileAnyFetchPending ==
    mounted => (isLoading <=> PendingFetches # {})

----------------------------------------------------------------------------
(* Properties of useClipboard *)

\* C19: the pending reset timer of the "copied" flag is cleared when the
\* owning component unmounts: no setIsCopied(false) callback fires after unmount.
C19_ResetTimerClearedOnUnmount ==
    cbLateResets = {}

\* C29: after a successful copy isCopied stays true for the full timeout
\* measured from the most recent successful copy: when a reset timer turns
\* isCopied off, no timer of a later successful copy is still running.
C29_CopiedForFullTimeout ==
    [][\A t \in cbTimers :
          (ResetFired(t) /\ cbMounted /\ cbIsCopied) =>
              \A u \in cbTimers : u.remaining = 0]_vars

\* C30: the success notification of a copy is shown only when its clipboard
\* write succeeded: a copy whose writeText rejected has no success
\* notification, and isCopied is false once the rejection is handled.
C30_ToastOnlyOnSuccess ==
    /\ cbToasts \cap cbFailed = {}
    /\ (cbMounted /\ cbFailed # {} /\ cbWritten = {}) => ~cbIsCopied

----------------------------------------------------------------------------
(* Properties of apiClient *)

\* C20: every outbound API request carries the stored bearer token when one
\* exists; a 401 response on any request triggers a redirect to the login
\* entry point and still rejects the call, and the call site reports it as an
\* ordinary failure notification, with no rejection left unhandled.
C20_BearerSentAnd401RedirectsAndRejects ==
    /\ \A r \in auInflight \cup auSettled :
        r.stored # NoToken => r.authorization = <<"Bearer", r.stored>>
    /\ \A o \in auSettled :
        o.status = Unauthorized =>
            /\ o.href = "/login"
            /\ o.settle = "rejected"
            /\ o.notified
    /\ auUnhandled = {}

\* a request sent with the stored token came back 401: it was redirected and
\* notified; a request sent after that went out without a token
C20_Witness ==
    /\ \E o \in auSettled :
        /\ o.status = Unauthorized
        /\ o.stored \in Tokens
        /\ o.authorization = <<"Bearer", o.stored>>
        /\ o.href = "/login"
        /\ o.notified
    /\ \E r \in auInflight : r.stored = NoToken /\ r.authorization = NoAuthorization

\* C24: the three copies of the session token (localStorage 'token', the
\* 'token' cookie, the auth store's token / isAuthenticated) are all present or
\* all absent in every reachable state, so that the redirect to /login after
\* a 401 passes the middleware.
C24_TokenCopiesAgree ==
    /\ (lsToken = NoToken) <=> (cookieToken = NoToken)
    /\ (lsToken = NoToken) <=> (stToken = NoToken)
    /\ stIsAuthenticated <=> (stToken # NoToken)
    /\ (href = "/login" /\ lsToken = NoToken) => Middleware(href, cookieToken) = "/login"

\* C25: in the auth store isAuthenticated is true iff token is non-null iff
\* user is non-null, after any sequence of login, logout and updateUser;
\* updateUser changes neither token nor isAuthenticated and leaves user null
\* when logged out.
C25_StoreFieldsAgree ==
    /\ [](/\ stIsAuthenticated <=> (stToken # NoToken)
          /\ stIsAuthenticated <=> stUser.present
          /\ ~stUser.present => stUser = NoUser)
    /\ [][\A userData \in UserData :
            UpdateUser(userData) =>
              /\ stToken' = stToken
              /\ stIsAuthenticated' = stIsAuthenticated
              /\ stUser'.present <=> stUser.present
              /\ stUser'.id = stUser.id]_vars

\* updateUser has changed the name of the logged-in user; token and flag stand
C25_Witness ==
    /\ stIsAuthenticated
    /\ stToken = "t2"
    /\ stUser = User(1, "Bob")
    /\ lsToken = "t2"


\* position of the last call in log that sets the value outright, 0 if none
LastSet(log) ==
    LET sets == {i \in 1..Len(log) : log[i].op # "toggle"}
    IN  IF sets = {} THEN 0 ELSE CHOOSE i \in sets : \A j \in sets : j <= i

\* the boolean the calls of log leave, from the claim: the last setTrue,
\* setFalse or setValue(b) fixes it, every toggle after that flips it
ValueAfter(initial, log) ==
    LET k == LastSet(log)
        base == IF k = 0 THEN initial ELSE log[k].arg
        flips == Cardinality({i \in (k + 1)..Len(log) : log[i].op = "toggle"})
    IN  IF flips % 2 = 0 THEN base ELSE ~base

\* C22: useToggle holds one boolean: toggle flips it, two toggles restore it
\* (also back-to-back before a re-render), setTrue yields true, setFalse yields
\* false, setValue(b) yields b, setTrue and setFalse are idempotent.
C22_ToggleAlgebra ==
    /\ tgValue \in BOOLEAN
    /\ ApplyQueue(tgQueue, tgValue) = ValueAfter(tgInitial, tgLog)
    /\ tgQueue = <<>> => tgValue = ValueAfter(tgInitial, tgLog)

\* after a setTrue, two toggles were issued back-to-back and then rendered:
\* the value is true again
C22_Witness ==
    /\ Len(tgLog) = 4
    /\ tgLog[2].op = "setTrue"
    /\ tgLog[3].op = "toggle"
    /\ tgLog[4].op = "toggle"
    /\ tgQueue = <<>>
    /\ tgValue = TRUE
    /\ tgInitial = FALSE

----------------------------------------------------------------------------
(* Properties of the middleware *)

\* the dashboard paths of the claim and what lies below them
DashboardPaths ==
    {"/portfolio", "/snippets", "/interview-prep", "/blog", "/analytics",
     "/snippets/1", "/portfolio/edit"}

AuthPaths == {"/login", "/register"}

\* C23: a request for a dashboard path without token cookie is redirected to
\* /login, a request for /login or /register with a token cookie is redirected
\* to /portfolio, every other request passes through, and no request is
\* redirected twice for the same cookie state.
C23_MiddlewareRedirects ==
    /\ mwResponse # Pending =>
        /\ (mwPath \in DashboardPaths /\ mwCookie = NoToken)
              => mwResponse = [kind |-> "redirect", to |-> "/login"]
        /\ (mwPath \in AuthPaths /\ mwCookie # NoToken)
              => mwResponse = [kind |-> "redirect", to |-> "/portfolio"]
        /\ ~(mwPath \in DashboardPaths /\ mwCookie = NoToken)
              /\ ~(mwPath \in AuthPaths /\ mwCookie # NoToken)
              => mwResponse = [kind |-> "next", to |-> mwPath]
    /\ mwHops <= 1
    /\ mwHops = 1 /\ mwResponse # Pending => mwResponse.kind = "next"

\* a request for /register with a cookie was redirected once, and /portfolio
\* passed through
C23_Witness ==
    /\ mwVisits = 2
    /\ mwCookie \in Tokens
    /\ mwHops = 1
    /\ mwPath = "/portfolio"
    /\ mwResponse = [kind |-> "next", to |-> "/portfolio"]

----------------------------------------------------------------------------
(* Properties of the tag filter *)

NoDuplicates(seq) == \A i, j \in 1..Len(seq) : seq[i] = seq[j] => i = j

\* C27: selectedTags is a duplicate-free subset of allTags, the duplicate-free
\* union of the tags of the current source list, in every reachable state,
\* also after a delete or re-fetch removed the last snippet carrying a
\* selected tag; so every selected tag has a badge to deselect it with.
C27_SelectedTagsOnOffer ==
    /\ NoDuplicates(tsSelected)
    /\ NoDuplicates(AllTags(tsSnippets))
    /\ Range(AllTags(tsSnippets)) = UNION {Range(tsSnippets[i].tags) : i \in 1..Len(tsSnippets)}
    /\ Range(tsSelected) \subseteq Range(AllTags(tsSnippets))

----------------------------------------------------------------------------
(* Properties of useAsync *)

\* C28: across any interleaving of overlapping execute() calls, data is
\* non-null only when status is 'success', error is non-null only when status
\* is 'error', and once all calls have settled status, data and error are
\* those of the most recently started execute().
C28_AsyncStateConsistent ==
    /\ asData # Null => asStatus = "success"
    /\ asError # Null => asStatus = "error"
    /\ (asCalls = {} /\ asNextCall > 1) =>
        \A o \in asOutcomes :
            o.call = asNextCall - 1 =>
                IF o.ok
                THEN asStatus = "success" /\ asData = o.call /\ asError = Null
                ELSE asStatus = "error" /\ asError = o.call /\ asData = Null

============================================================================
